---- MODULE Spec2Model ----
(***************************************************************************)
(* adtools: promise-based helpers (bind, find, findAt, findOU, findOUs,    *)
(* findUser, findGroup, findComputer, findComputersByOU) over the          *)
(* activedirectory client.  The model follows one session (the             *)
(* ActiveDirectory instance returned by bind) and the helper calls issued  *)
(* on it.  A helper call is split at the points where JavaScript can       *)
(* interleave other code: the synchronous prefix up to the delegated call  *)
(* (Start), the delegated callback with the .catch handler (Settle), and   *)
(* the continuation after the await (Resume).                              *)
(***************************************************************************)
EXTENDS Naturals, Sequences, FiniteSets

\* Number of helper calls made on the session; any of them may overlap.
MaxCalls == 2
\* Number of times the delegated authenticate may invoke its callback.
MaxCallbacks == 2

Calls == 1..MaxCalls

(***************************************************************************)
(* JavaScript values.                                                      *)
(***************************************************************************)
Null == [t |-> "null"]
Undefined == [t |-> "undefined"]
List(s) == [t |-> "list", items |-> s]
Results(u, g, o) == [t |-> "results", users |-> u, groups |-> g, other |-> o]
Thrown == [t |-> "thrown-by-handler"]
QueryError == [t |-> "error", e |-> "query failed"]

\* !x
Falsy(v) == v.t \in {"null", "undefined"}

\* results.other
OtherOf(v) == IF v.t = "results" THEN List(v.other) ELSE Undefined

\* results.other[0]
FirstOf(v) ==
  IF v.t = "list" /\ Len(v.items) > 0 THEN v.items[1] ELSE Undefined

\* A settled promise.
Resolved(v) == [st |-> "resolved", v |-> v]
Rejected(v) == [st |-> "rejected", v |-> v]
Pending == [st |-> "pending", v |-> Undefined]

(***************************************************************************)
(* Base DNs.  directory.baseDN holds a string, or undefined once an        *)
(* omitted argument has been assigned to it.                               *)
(***************************************************************************)
RootDN == "DC=ad"
LabDN == "OU=Lab,DC=ad"
UndefinedDN == "undefined"
BaseDNs == {RootDN, LabDN}

(***************************************************************************)
(* Directory content, in the order the server returns entries.  cn and ou  *)
(* are "-" when the entry has no such attribute; at is the container the   *)
(* entry lives in.                                                         *)
(***************************************************************************)
Entry(class, cn, ou, at) ==
  [t |-> "entry", class |-> class, cn |-> cn, ou |-> ou, at |-> at]

Directory ==
  << Entry("user", "pc1", "-", RootDN),
     Entry("organizationalUnit", "-", "pc1", RootDN),
     Entry("computer", "pc2", "-", LabDN),
     Entry("group", "pc1", "-", RootDN),
     Entry("container", "pc1", "-", RootDN),
     Entry("computer", "pc1", "-", RootDN),
     Entry("organizationalUnit", "-", "Lab", RootDN) >>

\* Names the callers pass: one that several classes share, one that nothing
\* carries, and the filter wildcard.
Names == {"pc1", "zz", "*"}
\* Account and group names looked up with findUser and findGroup.
AccountNames == {"pc1", "zz"}

(***************************************************************************)
(* LDAP filters.  The helpers build filter strings from templates; the     *)
(* name is interpolated as written, so the directory reads it as a filter  *)
(* value ("*" is the presence assertion).  A filter is kept as the triple  *)
(* the string denotes: object class ("*" for any), attribute ("-" for no   *)
(* attribute clause) and asserted value.                                   *)
(***************************************************************************)
Filter(class, attr, val) == [class |-> class, attr |-> attr, val |-> val]
NoFilter == Filter("-", "-", "-")

\* `(&(objectClass=organizationalUnit)(ou=${name}))`
OUFilter(name) == Filter("organizationalUnit", "ou", name)
\* '(objectClass=organizationalUnit)'
AllOUsFilter == Filter("organizationalUnit", "-", "-")
\* The computer template without its object-class clause: `(cn=${name})`.
ComputerFilterNoClass(name) == Filter("*", "cn", name)
\* `(&(objectClass=computer)(cn=${name}))`
ComputerFilter(name) == Filter("computer", "cn", name)
\* '(objectClass=computer)'
AllComputersFilter == Filter("computer", "-", "-")
\* directory.findUser(username) and directory.findGroup(group) look the
\* name up among the users and the groups.
UserFilter(name) == Filter("user", "cn", name)
GroupFilter(name) == Filter("group", "cn", name)

\* Queries the callers hand to find and findAt:
\* '(&(objectClass=user)(cn=pc1))' and '(cn=*)'.
Queries == {Filter("user", "cn", "pc1"), Filter("*", "cn", "*")}

\* (attr=val) against an attribute value of an entry.
ValueMatches(val, v) == v # "-" /\ (val = "*" \/ val = v)

FilterMatches(f, e) ==
  /\ f.class = "*" \/ f.class = e.class
  /\ \/ f.attr = "-"
     \/ f.attr = "cn" /\ ValueMatches(f.val, e.cn)
     \/ f.attr = "ou" /\ ValueMatches(f.val, e.ou)

\* Subtree scope: everything lives under the root.
Under(e, base) == base = RootDN \/ e.at = base

\* The entries a search returns, in directory order.
Search(base, f) ==
  SelectSeq(Directory, LAMBDA e : Under(e, base) /\ FilterMatches(f, e))

OfClass(s, classes) == SelectSeq(s, LAMBDA e : e.class \in classes)
NotOfClass(s, classes) == SelectSeq(s, LAMBDA e : e.class \notin classes)

\* What directory.find reports on success: { users, groups, other }, or
\* nothing at all when no entry matched.
FindOutcomes(base, f) ==
  LET m == Search(base, f) IN
  IF m = << >>
  THEN {Undefined, Results(<< >>, << >>, << >>)}
  ELSE {Results(OfClass(m, {"user"}), OfClass(m, {"group"}),
                NotOfClass(m, {"user", "group"}))}

\* What directory.findUser / directory.findGroup report on success: the
\* first match, or nothing.
FindOneOutcomes(base, f) ==
  LET m == Search(base, f) IN
  IF m = << >> THEN {Undefined} ELSE {m[1]}

(***************************************************************************)
(* State.                                                                  *)
(***************************************************************************)
VARIABLES
  session,    \* the promise bind returned and what authenticate reported
  baseDN,     \* directory.baseDN of the ActiveDirectory instance
  calls       \* the helper calls made on the session, in the order issued

vars == << session, baseDN, calls >>

\* Before bind has constructed the instance there is no baseDN.
NoDN == "-"

(***************************************************************************)
(* bind                                                                    *)
(***************************************************************************)
NoError == [t |-> "no-error"]
InvalidCredentials == [t |-> "error", e |-> "InvalidCredentialsError"]
ConnectionRefused == [t |-> "error", e |-> "ECONNREFUSED"]
AuthFailedString == [t |-> "string", s |-> "Authentication failed"]
DirectoryInstance == [t |-> "directory"]

Urls == {"ldap://up", "ldap://down"}
Usernames == {"admin", "guest"}
Passwords == {"right", "wrong"}
Reachable(url) == url = "ldap://up"
ValidCredentials(username, password) ==
  username = "admin" /\ password = "right"

Report(err, auth) == [err |-> err, auth |-> auth]

\* What ad.authenticate hands to its callback, (err, auth): a transport
\* error at any time; from a server that answers, success for valid
\* credentials and a refusal for invalid ones.
AuthReports(url, username, password) ==
  {Report(ConnectionRefused, FALSE)} \cup
  ( IF ~Reachable(url) THEN {}
    ELSE IF ValidCredentials(username, password)
         THEN {Report(NoError, TRUE)}
         ELSE {Report(InvalidCredentials, FALSE), Report(NoError, FALSE)} )

Unbound ==
  [started |-> FALSE, url |-> "-", username |-> "-", password |-> "-",
   configured |-> NoDN, promise |-> Pending, reports |-> << >>,
   settles |-> 0]

\* The callback without its `if (!auth)` line.
AuthCallbackIgnoresAuth(err, auth) ==
  IF err # NoError THEN Rejected(err) ELSE Resolved(DirectoryInstance)

\* The callback of ad.authenticate:
\*   if (err) return rej(err);
\*   if (!auth) return rej('Authentication failed');
\*   return res(ad);
AuthCallbackSettles(err, auth) ==
  IF err # NoError THEN Rejected(err)
  ELSE IF ~auth THEN Rejected(AuthFailedString)
  ELSE Resolved(DirectoryInstance)

\* bind(url, username, password, baseDN): constructs the instance with the
\* given options and starts authenticate.
Bind(url, username, password, b) ==
  /\ ~session.started
  /\ session' = [session EXCEPT !.started = TRUE, !.url = url,
                                !.username = username,
                                !.password = password, !.configured = b]
  /\ baseDN' = b
  /\ UNCHANGED calls

\* authenticate invokes the callback; res and rej act on a pending promise
\* only.
AuthCallback(r) ==
  /\ session.started
  /\ Len(session.reports) < MaxCallbacks
  /\ r \in AuthReports(session.url, session.username, session.password)
  /\ session' =
       [session EXCEPT
          !.reports = Append(@, r),
          !.promise = IF @.st = "pending"
                      THEN AuthCallbackSettles(r.err, r.auth) ELSE @,
          !.settles = IF session.promise.st = "pending" THEN @ + 1 ELSE @]
  /\ UNCHANGED << baseDN, calls >>

\* The session bind hands to its caller.
BoundSession(b) ==
  [started |-> TRUE, url |-> "ldap://up", username |-> "admin",
   password |-> "right", configured |-> b,
   promise |-> Resolved(DirectoryInstance),
   reports |-> << Report(NoError, TRUE) >>, settles |-> 1]

Bound == session.promise.st = "resolved"

(***************************************************************************)
(* The helper calls.                                                       *)
(***************************************************************************)
ScopedOps == {"findAt", "findOUs", "findComputersByOU"}
PlainOps == {"find", "findOU", "findUser", "findGroup", "findComputer"}

\* The optional error handler: absent, returning nothing, or throwing.
Handlers == {"none", "void", "throws"}

Request(op, name, query, target, handler) ==
  [op |-> op, name |-> name, query |-> query, target |-> target,
   handler |-> handler]

Requests ==
  { Request("find", "-", q, "-", h) : q \in Queries, h \in Handlers }
  \cup { Request("findAt", "-", q[1], q[2], h) :
           q \in Queries \X BaseDNs, h \in Handlers }
  \cup { Request(o[1], o[2], NoFilter, "-", h) :
           o \in {"findOU", "findComputer"} \X Names, h \in Handlers }
  \cup { Request(o[1], o[2], NoFilter, "-", h) :
           o \in {"findUser", "findGroup"} \X AccountNames, h \in Handlers }
  \cup { Request("findOUs", "-", NoFilter, b, h) :
           b \in BaseDNs \cup {UndefinedDN}, h \in Handlers }
  \cup { Request("findComputersByOU", "-", NoFilter, b, h) :
           b \in BaseDNs, h \in Handlers }

\* The query each helper hands to the delegated call.
FilterOf(req) ==
  CASE req.op \in {"find", "findAt"} -> req.query
    [] req.op = "findOU" -> OUFilter(req.name)
    [] req.op = "findOUs" -> AllOUsFilter
    [] req.op = "findUser" -> UserFilter(req.name)
    [] req.op = "findGroup" -> GroupFilter(req.name)
    [] req.op = "findComputer" -> ComputerFilter(req.name)
    [] req.op = "findComputersByOU" -> AllComputersFilter

NoValue == [t |-> "none"]

IdleCall ==
  [pc |-> "idle", req |-> Request("-", "-", NoFilter, "-", "none"),
   original |-> NoDN, issuedBase |-> NoDN, filter |-> NoFilter,
   outcome |-> NoValue, handlerCalls |-> 0, handlerArg |-> NoValue,
   inner |-> Pending, ret |-> Pending, overlapped |-> FALSE]

InProgress(c) == calls[c].pc \in {"inflight", "settled"}

\* swapBaseThen without the write of the target.
SwapBaseSkipped(current, target) == current

\* swapBaseThen: directory.baseDN = target
SwapBase(current, target) == target

\* The synchronous prefix of a helper: for a scoped helper swapBaseThen
\* saves and overwrites directory.baseDN and calls execute, which calls
\* find; find calls the delegated directory.find / findUser / findGroup,
\* which reads directory.baseDN and sends the search.  Nothing is awaited
\* on the way.
Start(c, req) ==
  /\ Bound
  /\ calls[c].pc = "idle"
  /\ \A d \in Calls : d < c => calls[d].pc # "idle"
  /\ LET scoped == req.op \in ScopedOps
         base == IF scoped THEN SwapBase(baseDN, req.target) ELSE baseDN
         busy == \E d \in Calls : d # c /\ InProgress(d)
     IN
     /\ baseDN' = base
     /\ calls' =
          [d \in Calls |->
             IF d = c
             THEN [IdleCall EXCEPT
                     !.pc = "inflight", !.req = req,
                     !.original = IF scoped THEN baseDN ELSE NoDN,
                     !.issuedBase = base, !.filter = FilterOf(req),
                     !.overlapped = busy]
             ELSE IF InProgress(d)
                  THEN [calls[d] EXCEPT !.overlapped = TRUE]
                  ELSE calls[d]]
  /\ UNCHANGED session

\* What the delegated call can report for the search it was handed.
Outcomes(call) ==
  {QueryError} \cup
  ( IF call.issuedBase = UndefinedDN THEN {}
    ELSE IF call.req.op \in {"findUser", "findGroup"}
         THEN FindOneOutcomes(call.issuedBase, call.filter)
         ELSE FindOutcomes(call.issuedBase, call.filter) )

\* The catch that drops the caller's handler: .catch(() => null)
CatchAlwaysNull(handler, outcome) ==
  IF outcome.t # "error" THEN Resolved(outcome) ELSE Resolved(Null)

\* promisify(...)(query).catch(err || (() => null))
Catch(handler, outcome) ==
  IF outcome.t # "error" THEN Resolved(outcome)
  ELSE CASE handler = "none" -> Resolved(Null)
         [] handler = "void" -> Resolved(Undefined)
         [] handler = "throws" -> Rejected(Thrown)

HandlerRuns(handler, outcome) ==
  IF outcome.t = "error" /\ handler # "none" THEN 1 ELSE 0

\* The delegated call reports; the promise find awaits settles.
Settle(c, outcome) ==
  /\ calls[c].pc = "inflight"
  /\ outcome \in Outcomes(calls[c])
  /\ LET h == calls[c].req.handler
         n == HandlerRuns(h, outcome) IN
     calls' =
       [calls EXCEPT
          ![c].pc = "settled", ![c].outcome = outcome,
          ![c].handlerCalls = @ + n,
          ![c].handlerArg = IF n = 1 THEN outcome ELSE @,
          ![c].inner = Catch(h, outcome)]
  /\ UNCHANGED << session, baseDN >>

\* swapBaseThen after `await execute()`: the base is written back only when
\* execute did not throw.
RestoreBase(current, original, inner) ==
  IF inner.st = "resolved" THEN original ELSE current

\* The shaping with first-match and all-match exchanged.
ShapeExchanged(op, results) ==
  CASE op \in {"find", "findAt", "findUser", "findGroup"} -> results
    [] op \in {"findOUs", "findComputersByOU"} ->
         IF Falsy(results) THEN Null ELSE FirstOf(OtherOf(results))
    [] op \in {"findOU", "findComputer"} ->
         IF Falsy(results) THEN Null ELSE OtherOf(results)

\* What each helper makes of the results it awaited.
Shape(op, results) ==
  CASE op \in {"find", "findAt", "findUser", "findGroup"} -> results
    [] op \in {"findOU", "findComputer"} ->
         IF Falsy(results) THEN Null ELSE FirstOf(OtherOf(results))
    [] op \in {"findOUs", "findComputersByOU"} ->
         IF Falsy(results) THEN Null ELSE OtherOf(results)

Return(op, inner) ==
  IF inner.st = "rejected" THEN inner ELSE Resolved(Shape(op, inner.v))

\* The continuation after the await: restore the base (scoped helpers),
\* shape the result, settle the helper's promise.
Resume(c) ==
  /\ calls[c].pc = "settled"
  /\ LET call == calls[c] IN
     /\ baseDN' = IF call.req.op \in ScopedOps
                  THEN RestoreBase(baseDN, call.original, call.inner)
                  ELSE baseDN
     /\ calls' = [calls EXCEPT ![c].pc = "done",
                               ![c].ret = Return(call.req.op, call.inner)]
  /\ UNCHANGED session

AllReports ==
  UNION { AuthReports(u[1], u[2], u[3]) : u \in Urls \X Usernames \X Passwords }

\* Binding: from construction to the settled promise.
InitBind ==
  /\ session = Unbound
  /\ baseDN = NoDN
  /\ calls = [c \in Calls |-> IdleCall]

NextBind ==
  \/ \E url \in Urls, username \in Usernames, password \in Passwords,
        b \in BaseDNs : Bind(url, username, password, b)
  \/ \E r \in AllReports : AuthCallback(r)

SpecBind == InitBind /\ [][NextBind]_vars

\* The session in use: the instance bind resolved with, and the helper
\* calls made on it.
Init ==
  /\ \E b \in BaseDNs : session = BoundSession(b) /\ baseDN = b
  /\ calls = [c \in Calls |-> IdleCall]

Next ==
  \/ \E c \in Calls, req \in Requests : Start(c, req)
  \/ \E c \in Calls : \E o \in Outcomes(calls[c]) : Settle(c, o)
  \/ \E c \in Calls : Resume(c)

Spec == Init /\ [][Next]_vars

(***************************************************************************)
(* Properties.                                                             *)
(***************************************************************************)
Started(c) == calls[c].pc # "idle"
Done(c) == calls[c].pc = "done"
Failed(c) == calls[c].outcome.t = "error"
Absent(v) == v.t \in {"null", "undefined"}

\* C1: a plain find / findOU / findComputer issued while a scoped query
\* (findAt, findOUs, findComputersByOU) is still in flight on the same
\* session is executed against the base DN the session was configured
\* with, not against the override.
C1_PlainQuerySeesConfiguredBase ==
  \A c, d \in Calls :
    ( /\ d < c
      /\ calls[d].req.op \in ScopedOps
      /\ calls[d].pc = "inflight"
      /\ Started(c)
      /\ calls[c].req.op \in {"find", "findOU", "findComputer"} )
    => calls[c].issuedBase = session.configured

\* C2: bind settles exactly once; it resolves with the directory instance
\* exactly when authenticate's (first) report carries no error and a true
\* result, and rejects otherwise; a rejection for refused credentials is an
\* authentication error, a rejection for a transport failure is not.
AuthenticationErrors == {InvalidCredentials, AuthFailedString}

C2_BindSettlesOnce ==
  LET n == Len(session.reports)
      ok == n > 0 /\ session.reports[1].err = NoError /\ session.reports[1].auth
  IN
  /\ session.settles = (IF n > 0 THEN 1 ELSE 0)
  /\ (n = 0) = (session.promise.st = "pending")
  /\ (session.promise.st = "resolved") = ok
  /\ ok => session.promise.v = DirectoryInstance
  /\ session.promise.st = "rejected" =>
       IF session.reports[1].err = ConnectionRefused
       THEN session.promise.v \notin AuthenticationErrors
       ELSE /\ ~ValidCredentials(session.username, session.password)
            /\ session.promise.v \in AuthenticationErrors

\* Refused credentials reported without an error object, and a second
\* report arriving after the promise was rejected.
C2_Witness ==
  /\ Len(session.reports) = 2
  /\ session.reports[1] = Report(NoError, FALSE)
  /\ session.promise = Rejected(AuthFailedString)

\* C3 (as stated): for find, findUser and findGroup, a failed delegated call
\* without a handler resolves to null; with a handler, the handler is
\* invoked exactly once with the error and the promise resolves to what the
\* handler returns; a successful call never invokes the handler and its
\* result is passed through unchanged.
PassThroughOps == {"find", "findUser", "findGroup"}

C4_NoMatchYieldsEmpty ==
  \A c \in Calls :
    ( /\ Done(c)
      /\ calls[c].req.op \in {"findOUs", "findComputersByOU", "find", "findAt"}
      /\ ~Failed(c)
      /\ Search(calls[c].issuedBase, calls[c].filter) = << >> )
    => calls[c].ret =
         Resolved(IF calls[c].req.op \in {"find", "findAt"}
                  THEN Results(<< >>, << >>, << >>)
                  ELSE List(<< >>))

\* C5 (as stated): findComputer(name) returns nothing or an entry whose
\* object class is computer and whose cn equals name; findComputersByOU
\* returns computer entries only.
OnlyComputers(v) ==
  v.t = "list" => \A i \in 1..Len(v.items) : v.items[i].class = "computer"

NameMatches(name, v) == v # "-" /\ (name = "*" \/ v = name)

OUsUnder(base) ==
  SelectSeq(Directory,
            LAMBDA e : e.class = "organizationalUnit" /\ Under(e, base))
ComputersUnder(base) ==
  SelectSeq(Directory, LAMBDA e : e.class = "computer" /\ Under(e, base))
OUsNamed(base, name) ==
  SelectSeq(OUsUnder(base), LAMBDA e : NameMatches(name, e.ou))
ComputersNamed(base, name) ==
  SelectSeq(ComputersUnder(base), LAMBDA e : NameMatches(name, e.cn))

FirstOrAbsent(s, v) == IF s = << >> THEN Absent(v) ELSE v = s[1]

C7_FindOUsDefaultsToConfiguredBase ==
  /\ baseDN # UndefinedDN
  /\ \A c \in Calls :
       ( /\ Started(c)
         /\ calls[c].req.op = "findOUs"
         /\ calls[c].req.target = UndefinedDN )
       => calls[c].issuedBase = session.configured

\* C8: once every scoped query issued on the session has completed (here:
\* each of them returned to its caller without throwing), directory.baseDN
\* is again the base DN the session had before the first of them.
C8_BaseRestoredAfterAllComplete ==
  ( /\ \A c \in Calls : calls[c].pc \in {"idle", "done"}
    /\ \A c \in Calls : Done(c) => calls[c].ret.st = "resolved" )
  => baseDN = session.configured

\* C9: when a scoped query that no other call overlaps settles, whether the
\* delegated query succeeded, failed without a handler, failed with a
\* handler that returned or failed with a handler that threw,
\* directory.baseDN is what it was before the call.
C9_BaseRestoredOnEveryExit ==
  [][ \A c \in Calls :
        ( /\ calls[c].pc = "settled" /\ calls'[c].pc = "done"
          /\ calls[c].req.op \in ScopedOps
          /\ ~calls[c].overlapped )
        => baseDN' = calls[c].original ]_vars

\* C10: every scoped query is handed to the delegated find while
\* directory.baseDN is the base DN argument of that very call.
C10_ScopedQueryIssuedAgainstItsTarget ==
  \A c \in Calls :
    (Started(c) /\ calls[c].req.op \in ScopedOps)
    => calls[c].issuedBase = calls[c].req.target

\* Two overlapping scoped queries with different targets.
C10_Witness ==
  \E c, d \in Calls :
    /\ d < c
    /\ calls[d].pc = "inflight" /\ calls[d].req.op = "findAt"
    /\ calls[c].pc = "inflight" /\ calls[c].req.op = "findComputersByOU"
    /\ calls[d].issuedBase = LabDN /\ calls[c].issuedBase = RootDN
    /\ calls[c].overlapped /\ calls[d].overlapped

====
